---- MODULE Spec2Model ----
(***************************************************************************)
(* A model of the LVIS dataset accessor of src/lvis/lvis.py: the index     *)
(* built by _create_index, the lookup methods (get_ann_ids, _load_helper,  *)
(* get_image_ids, get_annotations) and the label exporter export_labels    *)
(* with the label files it reads and appends to.                           *)
(*                                                                         *)
(* Python values are modelled as follows.                                  *)
(*   - a dict (and a defaultdict) is a sequence of <<key, value>> pairs in *)
(*     insertion order, which is the order dict.values() yields;           *)
(*   - an optional argument or an optional JSON field is a record          *)
(*     [st, v]: st = "absent" (argument None / key not in the object),     *)
(*     "null" (JSON null) or "val" (v is the value);                       *)
(*   - a text file is a sequence of chunks: a chunk is a piece of text     *)
(*     that holds no line break, or a line break, or a run of blanks;      *)
(*   - a float is the exact rational it stands for, kept as an integer     *)
(*     numerator over a known integer denominator.                         *)
(***************************************************************************)
EXTENDS Integers, Sequences, FiniteSets, TLC

VARIABLES
    dataset,    \* self.dataset: the loaded JSON document
    index,      \* self.anns, self.imgs, self.cats, self.img_ann_map, self.cat_img_map
    files,      \* the labels folder: label file name -> file
    pc,         \* per export call: where it stands
    loc,        \* per export call: its local variables
    hist,       \* history of the exports (what was on disk before, what was exported,
                \* whether a call read a label file that another call had read and not yet appended to)
    setorder,   \* the order in which this interpreter iterates a set of image ids
    ret         \* the last lookup call and what it returned

vars == <<dataset, index, files, pc, loc, hist, setorder, ret>>

(***************************************************************************)
(* Bounds of the model.                                                    *)
(***************************************************************************)
MaxArea == 2        \* annotation areas are 0..MaxArea
MaxRuns == 2        \* export_labels calls in one behaviour
MaxDim == 3         \* image widths and heights are 1..MaxDim in the box checks
MaxCoord == 4       \* bounding box coordinates are -1..MaxCoord in the box checks
MaxAnns == 2        \* annotations of a dataset in the lookup checks

(***************************************************************************)
(* Python values.                                                          *)
(***************************************************************************)
\* z is the empty value of the field's type
Absent(z) == [st |-> "absent", v |-> z]
Null(z) == [st |-> "null", v |-> z]
Some(x) == [st |-> "val", v |-> x]
None == Absent(<<>>)

\* the orders in which a Python set may be iterated
Orderings(S) ==
    {s \in [1..Cardinality(S) -> S] : \A i, j \in 1..Cardinality(S) : s[i] = s[j] => i = j}
\* iterating the set S: its members in the order `order` puts them in
IterateSet(S, order) == SelectSeq(order, LAMBDA x : x \in S)
Range(s) == {s[i] : i \in 1..Len(s)}

RECURSIVE SeqsUpTo(_, _)
SeqsUpTo(S, n) ==
    IF n = 0 THEN {<<>>}
    ELSE LET shorter == SeqsUpTo(S, n - 1)
         IN  shorter \cup {Append(s, x) : s \in {t \in shorter : Len(t) = n - 1}, x \in S}

\* dict: key in d
DictHas(d, k) == \E i \in 1..Len(d) : d[i][1] = k
DictKeys(d) == {d[i][1] : i \in 1..Len(d)}
\* dict: d[k] for a key that is in d
DictGet(d, k) == d[CHOOSE i \in 1..Len(d) : d[i][1] = k][2]
\* dict: d[k] = v (a key keeps the place of its first insertion)
DictPut(d, k, v) ==
    IF DictHas(d, k)
    THEN [i \in 1..Len(d) |-> IF d[i][1] = k THEN <<k, v>> ELSE d[i]]
    ELSE Append(d, <<k, v>>)
\* dict: list(d.values())
DictValues(d) == [i \in 1..Len(d) |-> d[i][2]]
\* defaultdict(list): d[k] inserts an empty list under a key that is not in d
DefaultLookup(d, k) == IF DictHas(d, k) THEN d ELSE Append(d, <<k, <<>>>>)

(***************************************************************************)
(* LVIS._create_index                                                      *)
(***************************************************************************)
RECURSIVE BuildImgAnnMap(_, _)
BuildImgAnnMap(annotations, m) ==
    IF annotations = <<>> THEN m
    ELSE LET ann == Head(annotations)
             m1 == DefaultLookup(m, ann.image_id)
         IN  BuildImgAnnMap(Tail(annotations),
                            DictPut(m1, ann.image_id, Append(DictGet(m1, ann.image_id), ann)))

RECURSIVE BuildCatImgMap(_, _)
BuildCatImgMap(annotations, m) ==
    IF annotations = <<>> THEN m
    ELSE LET ann == Head(annotations)
             m1 == DefaultLookup(m, ann.category_id)
         IN  BuildCatImgMap(Tail(annotations),
                            DictPut(m1, ann.category_id,
                                    Append(DictGet(m1, ann.category_id), ann.image_id)))

RECURSIVE BuildById(_, _)
BuildById(records, m) ==
    IF records = <<>> THEN m
    ELSE BuildById(Tail(records), DictPut(m, Head(records).id, Head(records)))

_create_index(ds) ==
    [ img_ann_map |-> BuildImgAnnMap(ds.annotations, <<>>),
      cat_img_map |-> BuildCatImgMap(ds.annotations, <<>>),
      anns |-> BuildById(ds.annotations, <<>>),
      imgs |-> BuildById(ds.images, <<>>),
      cats |-> BuildById(ds.categories, <<>>) ]

(***************************************************************************)
(* LVIS.get_ann_ids                                                        *)
(***************************************************************************)
\* float("inf"): above every area of the model
Inf == MaxArea + 2

\* lines 78-83: the source annotations, and img_ann_map after the lookups
RECURSIVE ExtendFromImages(_, _, _)
ExtendFromImages(img_ids, m, anns) ==
    IF img_ids = <<>> THEN [anns |-> anns, img_ann_map |-> m]
    ELSE LET m1 == DefaultLookup(m, Head(img_ids))
         IN  ExtendFromImages(Tail(img_ids), m1, anns \o DictGet(m1, Head(img_ids)))

SourceAnns(ds, idx, img_ids) ==
    IF img_ids.st = "val"
    THEN ExtendFromImages(img_ids.v, idx.img_ann_map, <<>>)
    ELSE [anns |-> ds.annotations, img_ann_map |-> idx.img_ann_map]

AreaAboveMutant(area, lo) == area >= lo
\* line 98: _ann["area"] > area_rng[0]
AreaAbove(area, lo) == area > lo

\* line 99: _ann["area"] < area_rng[1]
AreaBelow(area, hi) == area < hi

\* lines 94-100
FilterAnns(anns, cat_set, rng) ==
    SelectSeq(anns, LAMBDA a : /\ a.category_id \in cat_set
                               /\ AreaAbove(a.area, rng[1])
                               /\ AreaBelow(a.area, rng[2]))

IdsOf(anns) == [i \in 1..Len(anns) |-> anns[i].id]

get_ann_idsMutant(ds, idx, img_ids, cat_ids, area_rng) ==
    LET src == SourceAnns(ds, idx, img_ids)
        rng == IF area_rng.st = "val" THEN area_rng.v ELSE <<0, Inf>>
        cat_set == IF cat_ids.st = "val" THEN Range(cat_ids.v)
                   ELSE {src.anns[i].category_id : i \in 1..Len(src.anns)}
    IN  IF cat_ids.st # "val" /\ area_rng.st # "val"
        THEN [err |-> "none", val |-> IdsOf(src.anns), img_ann_map |-> src.img_ann_map]
        ELSE [err |-> "none", val |-> IdsOf(FilterAnns(src.anns, cat_set, rng)),
              img_ann_map |-> src.img_ann_map]
\* the whole method: what it returns or raises, and img_ann_map afterwards
get_ann_ids(ds, idx, img_ids, cat_ids, area_rng) ==
    LET src == SourceAnns(ds, idx, img_ids)
    IN  IF cat_ids.st # "val" /\ area_rng.st # "val"
        THEN [err |-> "none", val |-> IdsOf(src.anns), img_ann_map |-> src.img_ann_map]
        ELSE IF cat_ids.st # "val"
        THEN \* line 89: set(None)
             [err |-> "TypeError", val |-> <<>>, img_ann_map |-> src.img_ann_map]
        ELSE LET rng == IF area_rng.st = "val" THEN area_rng.v ELSE <<0, Inf>>
             IN  [err |-> "none",
                  val |-> IdsOf(FilterAnns(src.anns, Range(cat_ids.v), rng)),
                  img_ann_map |-> src.img_ann_map]

(***************************************************************************)
(* LVIS._load_helper (load_anns, load_cats, load_imgs)                     *)
(***************************************************************************)
_load_helperMutant(d, ids) ==
    IF ids.st # "val" THEN [err |-> "none", val |-> DictValues(d)]
    ELSE LET found == SelectSeq(ids.v, LAMBDA k : DictHas(d, k))
         IN  [err |-> "none", val |-> [i \in 1..Len(found) |-> DictGet(d, found[i])]]
_load_helper(d, ids) ==
    IF ids.st # "val" THEN [err |-> "none", val |-> DictValues(d)]
    ELSE IF \E i \in 1..Len(ids.v) : ~DictHas(d, ids.v[i])
    THEN [err |-> "KeyError", val |-> <<>>]
    ELSE [err |-> "none", val |-> [i \in 1..Len(ids.v) |-> DictGet(d, ids.v[i])]]

(***************************************************************************)
(* LVIS.get_image_ids, LVIS.get_annotations                                *)
(***************************************************************************)
RECURSIVE CollectImageIds(_, _, _)
CollectImageIds(annotations, category_id, acc) ==
    IF annotations = <<>> THEN acc
    ELSE LET ann == Head(annotations)
         IN  CollectImageIds(Tail(annotations), category_id,
                             IF ann.category_id = category_id
                             THEN acc \cup {ann.image_id} ELSE acc)

get_image_idsMutant(ds, category_id) == {ds.annotations[i].image_id : i \in 1..Len(ds.annotations)}
get_image_ids(ds, category_id) == CollectImageIds(ds.annotations, category_id, {})

RECURSIVE GroupByImage(_, _)
GroupByImage(relevant, m) ==
    IF relevant = <<>> THEN m
    ELSE LET ann == Head(relevant)
             m1 == DefaultLookup(m, ann.image_id)
         IN  GroupByImage(Tail(relevant),
                          DictPut(m1, ann.image_id, Append(DictGet(m1, ann.image_id), ann)))

RelevantAnnotationsMutant(ds, category_id, image_ids) ==
    SelectSeq(ds.annotations, LAMBDA a : a.image_id \in image_ids)
\* lines 334-337
RelevantAnnotations(ds, category_id, image_ids) ==
    SelectSeq(ds.annotations,
              LAMBDA a : a.image_id \in image_ids /\ a.category_id = category_id)

get_annotations(ds, category_id, image_ids) ==
    GroupByImage(RelevantAnnotations(ds, category_id, image_ids), <<>>)

(***************************************************************************)
(* Label files.  A file is [ex, data]: whether it exists, and its content  *)
(* as a sequence of chunks.  A chunk is a tuple of integers:               *)
(*   <<class_idx, x_center, y_center, w_norm, h_norm>>  the text of one    *)
(*       label line, the four floats as millionths (what "%.6f" prints);   *)
(*   NL      the line break "\n";                                          *)
(*   CRNL    the line break "\r\n", which text mode reads as "\n";         *)
(*   WS      a run of blanks;                                              *)
(*   JUNK    text that is no label line of the dataset.                    *)
(* A line of text is the sequence of the chunks between two line breaks.   *)
(***************************************************************************)
NL == <<-1>>
CRNL == <<-2>>
WS == <<-3>>
JUNK == <<-4>>
IsBreak(chunk) == chunk = NL \/ chunk = CRNL

NoFile == [ex |-> FALSE, data |-> <<>>]

\* `for line in existing_file`: the lines of the file, the last one also
\* when no line break ends it
RECURSIVE SplitLines(_, _, _)
SplitLines(data, cur, acc) ==
    IF data = <<>> THEN (IF cur = <<>> THEN acc ELSE Append(acc, cur))
    ELSE IF IsBreak(Head(data)) THEN SplitLines(Tail(data), <<>>, Append(acc, cur))
    ELSE SplitLines(Tail(data), Append(cur, Head(data)), acc)

FileLines(file) == SplitLines(file.data, <<>>, <<>>)

\* str.strip(): the line without its leading and trailing blanks
RECURSIVE Strip(_)
Strip(line) ==
    IF line = <<>> THEN line
    ELSE IF Head(line) = WS THEN Strip(Tail(line))
    ELSE IF line[Len(line)] = WS THEN Strip(SubSeq(line, 1, Len(line) - 1))
    ELSE line

ReadExistingLinesMutant(file) == {}
\* lines 456-460: existing_lines
ReadExistingLines(file) ==
    IF file.ex THEN {Strip(l) : l \in Range(FileLines(file))} ELSE {}

AppendLineEmptyMutant(file, bbox_line) == [ex |-> TRUE, data |-> file.data]
AppendLineMutant(file, bbox_line) == [ex |-> TRUE, data |-> bbox_line \o <<NL>>]
\* lines 464-465: open(label_file_path, 'a'), write(bbox_line + "\n")
AppendLine(file, bbox_line) == [ex |-> TRUE, data |-> file.data \o bbox_line \o <<NL>>]

(***************************************************************************)
(* export_labels: the label line of one bounding box                       *)
(***************************************************************************)
BoxMalformedMutant(bbox) == bbox.st # "val" \/ bbox.v = <<>>
\* lines 432-433: bbox = ann.get('bbox', None); not bbox or len(bbox) != 4
BoxMalformed(bbox) == bbox.st # "val" \/ bbox.v = <<>> \/ Len(bbox.v) # 4

NormalizeMutant(bbox, img_width, img_height) ==
    [ x_center |-> [n |-> 2 * bbox[1] + bbox[3], d |-> 2 * img_height],
      y_center |-> [n |-> 2 * bbox[2] + bbox[4], d |-> 2 * img_width],
      w_norm |-> [n |-> bbox[3], d |-> img_height],
      h_norm |-> [n |-> bbox[4], d |-> img_width] ]
\* lines 436-442: the four values as exact fractions n/d, d > 0
Normalize(bbox, img_width, img_height) ==
    [ x_center |-> [n |-> 2 * bbox[1] + bbox[3], d |-> 2 * img_width],
      y_center |-> [n |-> 2 * bbox[2] + bbox[4], d |-> 2 * img_height],
      w_norm |-> [n |-> bbox[3], d |-> img_width],
      h_norm |-> [n |-> bbox[4], d |-> img_height] ]

\* f"{q:.6f}": the millionths nearest to n/d, a tie to the even one (a tie
\* needs a denominator that is a multiple of 128)
Fmt6(q) ==
    LET scaled == q.n * 1000000
        lo == scaled \div q.d
        twice == 2 * (scaled - lo * q.d)
    IN  IF twice < q.d THEN lo
        ELSE IF twice > q.d THEN lo + 1
        ELSE IF lo % 2 = 0 THEN lo ELSE lo + 1

\* line 451: bbox_line, one line of text made of one chunk
BboxLine(class_idx, bbox, img_width, img_height) ==
    LET q == Normalize(bbox, img_width, img_height)
    IN  << <<class_idx, Fmt6(q.x_center), Fmt6(q.y_center), Fmt6(q.w_norm), Fmt6(q.h_norm)>> >>

(***************************************************************************)
(* export_labels: the image record                                         *)
(***************************************************************************)
\* a URL "<dir>/<base><ext>"; the empty string has three empty parts
Url(dir, base, ext) == [dir |-> dir, base |-> base, ext |-> ext]
EmptyUrl == Url("", "", "")

\* lines 409-412: os.path.splitext(coco_url.split("/")[-1])[0] + '.txt',
\* named here by its base name
LabelFileName(coco_url) == coco_url.base

\* lines 408-416: the subscripts img["coco_url"], img["width"], img["height"]
\* and the call coco_url.split: the exception raised, or "none"
ImageAccessErrorMutant(img) == "none"
ImageAccessError(img) ==
    IF img.coco_url.st = "absent" THEN "KeyError"
    ELSE IF img.coco_url.st = "null" THEN "AttributeError"
    ELSE IF img.width.st = "absent" \/ img.height.st = "absent" THEN "KeyError"
    ELSE "none"

Truthy(field, empty) == field.st = "val" /\ field.v # empty

\* line 419: not (coco_url and img_width and img_height)
MissingCriticalInfo(img) ==
    ~(Truthy(img.coco_url, EmptyUrl) /\ Truthy(img.width, 0) /\ Truthy(img.height, 0))

(***************************************************************************)
(* export_labels as a process: one call is a sequence of steps, each       *)
(* touching the disk at most once.                                         *)
(***************************************************************************)
Procs == {1, 2}

NoImg == [id |-> 0, coco_url |-> Absent(EmptyUrl), width |-> Absent(0), height |-> Absent(0)]

\* the locals of a call that is not running
Blank ==
    [ category_id |-> 0, category_index |-> 0,
      image_id_to_annotations |-> <<>>,     \* line 401
      imgs |-> <<>>,                        \* line 405, the images not yet visited
      img |-> NoImg,                        \* line 406
      annotations_for_image |-> <<>>,       \* line 423, the annotations not yet visited
      bbox_line |-> <<>>,                   \* line 451
      existing_lines |-> {},                \* line 456
      err |-> "none",                       \* the exception that ended the call
      pre |-> [f \in {} |-> NoFile],        \* history: the folder when the call began
      rerun |-> FALSE ]                     \* history: the call before had the same arguments

\* lines 393-405: the call up to the list of images to visit
Begin(p, category_id, category_index) ==
    /\ pc[p] = "idle"
    /\ ret.op = "none"
    /\ hist.runs < MaxRuns
    /\ LET image_ids_for_category == get_image_ids(dataset, category_id)
           grp == get_annotations(dataset, category_id, image_ids_for_category)
       IN    LET r == _load_helper(index.imgs,
                                    Some(IterateSet(image_ids_for_category, setorder)))
             IN  /\ pc' = [pc EXCEPT ![p] = IF r.err = "none" THEN "img" ELSE "error"]
                 /\ loc' = [loc EXCEPT ![p] =
                        [Blank EXCEPT !.category_id = category_id,
                                      !.category_index = category_index,
                                      !.image_id_to_annotations = grp,
                                      !.imgs = r.val,
                                      !.err = r.err,
                                      !.pre = files,
                                      !.rerun = /\ hist.last.st = "val"
                                                /\ hist.last.category_id = category_id
                                                /\ hist.last.category_index = category_index]]
    /\ hist' = [hist EXCEPT !.runs = @ + 1]
    /\ UNCHANGED <<dataset, index, files, setorder, ret>>

\* line 406: the loop over imgs is over
ImagesDone(p) ==
    /\ pc[p] = "img"
    /\ loc[p].imgs = <<>>
    /\ pc' = [pc EXCEPT ![p] = "done"]
    /\ UNCHANGED <<dataset, index, files, loc, hist, setorder, ret>>

\* lines 406-416: reading the image record raises
ImageFails(p) ==
    /\ pc[p] = "img"
    /\ loc[p].imgs # <<>>
    /\ LET img == Head(loc[p].imgs)
       IN  /\ ImageAccessError(img) # "none"
           /\ pc' = [pc EXCEPT ![p] = "error"]
           /\ loc' = [loc EXCEPT ![p].img = img, ![p].imgs = Tail(@),
                                 ![p].err = ImageAccessError(img)]
    /\ UNCHANGED <<dataset, index, files, hist, setorder, ret>>

\* lines 406-427: the image is passed over (continue)
ImageSkipped(p) ==
    /\ pc[p] = "img"
    /\ loc[p].imgs # <<>>
    /\ LET img == Head(loc[p].imgs)
           grp == DefaultLookup(loc[p].image_id_to_annotations, img.id)
       IN  /\ ImageAccessError(img) = "none"
           /\ \/ /\ MissingCriticalInfo(img)
                 /\ loc' = [loc EXCEPT ![p].img = img, ![p].imgs = Tail(@)]
              \/ /\ ~MissingCriticalInfo(img)
                 /\ DictGet(grp, img.id) = <<>>
                 /\ loc' = [loc EXCEPT ![p].img = img, ![p].imgs = Tail(@),
                                       ![p].image_id_to_annotations = grp]
    /\ UNCHANGED <<dataset, index, files, pc, hist, setorder, ret>>

\* lines 406-427: the image has what is needed and a group of annotations
ImageTaken(p) ==
    /\ pc[p] = "img"
    /\ loc[p].imgs # <<>>
    /\ LET img == Head(loc[p].imgs)
           grp == DefaultLookup(loc[p].image_id_to_annotations, img.id)
       IN  /\ ImageAccessError(img) = "none"
           /\ ~MissingCriticalInfo(img)
           /\ DictGet(grp, img.id) # <<>>
           /\ loc' = [loc EXCEPT ![p].img = img, ![p].imgs = Tail(@),
                                 ![p].image_id_to_annotations = grp,
                                 ![p].annotations_for_image = DictGet(grp, img.id)]
    /\ pc' = [pc EXCEPT ![p] = "ann"]
    /\ UNCHANGED <<dataset, index, files, hist, setorder, ret>>

\* line 430: the loop over the annotations of the image is over
AnnsDone(p) ==
    /\ pc[p] = "ann"
    /\ loc[p].annotations_for_image = <<>>
    /\ pc' = [pc EXCEPT ![p] = "img"]
    /\ hist' = [hist EXCEPT !.exported =
                    @ \cup {<<loc[p].category_id, loc[p].category_index, loc[p].img.id>>}]
    /\ UNCHANGED <<dataset, index, files, loc, setorder, ret>>

\* lines 430-434: a bounding box that is missing or not of length 4 (continue)
AnnSkipped(p) ==
    /\ pc[p] = "ann"
    /\ loc[p].annotations_for_image # <<>>
    /\ BoxMalformed(Head(loc[p].annotations_for_image).bbox)
    /\ loc' = [loc EXCEPT ![p].annotations_for_image = Tail(@)]
    /\ UNCHANGED <<dataset, index, files, pc, hist, setorder, ret>>

\* lines 430-460: the line of the next annotation, and the lines on disk
ReadExisting(p) ==
    /\ pc[p] = "ann"
    /\ loc[p].annotations_for_image # <<>>
    /\ LET bbox == Head(loc[p].annotations_for_image).bbox
           img == loc[p].img
           name == LabelFileName(img.coco_url.v)
       IN  /\ ~BoxMalformed(bbox)
           /\ IF bbox.st # "val" \/ Len(bbox.v) # 4
              THEN \* line 436: x, y, w, h = bbox does not unpack
                   /\ pc' = [pc EXCEPT ![p] = "error"]
                   /\ loc' = [loc EXCEPT ![p].err =
                                  IF bbox.st = "val" THEN "ValueError" ELSE "TypeError"]
              ELSE /\ pc' = [pc EXCEPT ![p] = "append"]
                   /\ loc' = [loc EXCEPT
                          ![p].bbox_line = BboxLine(loc[p].category_index, bbox.v,
                                                    img.width.v, img.height.v),
                          ![p].existing_lines = ReadExistingLines(files[name])]
    /\ hist' = [hist EXCEPT !.overlap =
                    @ \/ \E q \in Procs \ {p} :
                            /\ pc[q] = "append"
                            /\ LabelFileName(loc[q].img.coco_url.v) =
                                   LabelFileName(loc[p].img.coco_url.v)]
    /\ UNCHANGED <<dataset, index, files, setorder, ret>>

\* lines 463-465: append the line unless it was read from the file
AppendIfAbsent(p) ==
    /\ pc[p] = "append"
    /\ LET name == LabelFileName(loc[p].img.coco_url.v)
       IN  files' = IF loc[p].bbox_line \notin loc[p].existing_lines
                    THEN [files EXCEPT ![name] = AppendLine(@, loc[p].bbox_line)]
                    ELSE files
    /\ pc' = [pc EXCEPT ![p] = "ann"]
    /\ loc' = [loc EXCEPT ![p].annotations_for_image = Tail(@)]
    /\ UNCHANGED <<dataset, index, hist, setorder, ret>>

\* the call returns, or its exception reaches the caller
Return(p) ==
    /\ pc[p] \in {"done", "error"}
    /\ pc' = [pc EXCEPT ![p] = "idle"]
    /\ loc' = [loc EXCEPT ![p] = Blank]
    /\ hist' = [hist EXCEPT !.last = [st |-> "val",
                                      category_id |-> loc[p].category_id,
                                      category_index |-> loc[p].category_index,
                                      files |-> files]]
    /\ UNCHANGED <<dataset, index, files, setorder, ret>>

(***************************************************************************)
(* The datasets and label folders the exports are checked on.              *)
(***************************************************************************)
Ann(id, image_id, category_id, area, bbox) ==
    [id |-> id, image_id |-> image_id, category_id |-> category_id, area |-> area, bbox |-> bbox]

Img(id, coco_url, width, height) ==
    [id |-> id, coco_url |-> coco_url, width |-> width, height |-> height]

Categories == << [id |-> 1], [id |-> 2] >>

BoxA == <<0, 0, 2, 2>>
BoxB == <<2, 0, 2, 1>>

\* the shapes of the bbox field: two boxes, no key, null, [], 3 and 5 numbers
BoxShapes ==
    {Some(BoxA), Some(BoxB), None, Null(<<>>), Some(<<>>), Some(<<0, 0, 2>>), Some(<<0, 0, 2, 2, 1>>)}

Image1 == Img(1, Some(Url("http://images/train", "p1", ".jpg")), Some(4), Some(2))

\* image 2: sound, or sound with the label file name of image 1, or with one
\* of coco_url, width, height absent, null or empty/zero
Image2Shapes ==
    LET url == Some(Url("http://images/train", "p2", ".jpg"))
    IN  { Img(2, url, Some(2), Some(4)),
          Img(2, Some(Url("http://images/val", "p1", ".png")), Some(2), Some(4)),
          Img(2, Absent(EmptyUrl), Some(2), Some(4)),
          Img(2, Null(EmptyUrl), Some(2), Some(4)),
          Img(2, Some(EmptyUrl), Some(2), Some(4)),
          Img(2, url, Absent(0), Some(4)),
          Img(2, url, Null(0), Some(4)),
          Img(2, url, Some(0), Some(4)),
          Img(2, url, Some(2), Absent(0)),
          Img(2, url, Some(2), Null(0)),
          Img(2, url, Some(2), Some(0)) }

\* three annotations: one on image 1 with a bbox of any shape, one on image 1
\* of either category, one on image 2; image 2 may be missing from "images"
ExportDatasets ==
    { [ annotations |-> << Ann(1, 1, 1, 1, b1), Ann(2, 1, c2, 1, Some(b2)), Ann(3, 2, 1, 1, Some(BoxA)) >>,
        images |-> imgs,
        categories |-> Categories ] :
        b1 \in BoxShapes, c2 \in {1, 2}, b2 \in {BoxA, BoxB},
        imgs \in {<<Image1>>} \cup {<<Image1, i2>> : i2 \in Image2Shapes} }

FileNames == {"p1", "p2"}

\* the line export_labels writes for BoxA on image 1 under class index 0
LineA == BboxLine(0, BoxA, 4, 2)

\* what p1.txt may hold before the first export
InitialContents ==
    { NoFile,
      [ex |-> TRUE, data |-> <<>>],
      [ex |-> TRUE, data |-> <<JUNK, NL>>],
      [ex |-> TRUE, data |-> <<JUNK>>],
      [ex |-> TRUE, data |-> LineA \o <<NL>>],
      [ex |-> TRUE, data |-> LineA],
      [ex |-> TRUE, data |-> <<WS>> \o LineA \o <<WS, CRNL, JUNK, CRNL>>] }

NoCall == [op |-> "none"]

ImageIdsOf(ds) == {ds.annotations[i].image_id : i \in 1..Len(ds.annotations)}

InitWith(ds, folder, order) ==
    /\ dataset = ds
    /\ setorder = order
    /\ index = _create_index(ds)
    /\ files = folder
    /\ pc = [p \in Procs |-> "idle"]
    /\ loc = [p \in Procs |-> Blank]
    /\ hist = [ runs |-> 0, exported |-> {}, files0 |-> folder, overlap |-> FALSE,
                last |-> [st |-> "absent", category_id |-> 0, category_index |-> 0,
                          files |-> folder] ]
    /\ ret = NoCall

Init ==
    \E ds \in ExportDatasets, c \in InitialContents :
        \E order \in Orderings(ImageIdsOf(ds)) :
            InitWith(ds, [f \in FileNames |-> IF f = "p1" THEN c ELSE NoFile], order)

\* one export_labels call at a time
Export(p) ==
    \/ \E category_id \in {1, 2}, category_index \in {0, 1} :
            Begin(p, category_id, category_index)
    \/ ImagesDone(p)
    \/ ImageFails(p)
    \/ ImageSkipped(p)
    \/ ImageTaken(p)
    \/ AnnsDone(p)
    \/ AnnSkipped(p)
    \/ ReadExisting(p)
    \/ AppendIfAbsent(p)
    \/ Return(p)

Next == Export(1)

Spec == Init /\ [][Next]_vars

(***************************************************************************)
(* The lookup methods, called one at a time on a loaded dataset (SpecQuery).*)
(***************************************************************************)
\* an annotation is <<image_id, category_id, area>>; its id is its place
AnnShapes == {<<image_id, category_id, area>> :
                 image_id \in {1, 2}, category_id \in {1, 2}, area \in 0..MaxArea}

Image2 == Img(2, Some(Url("http://images/train", "p2", ".jpg")), Some(2), Some(4))

QueryDatasets ==
    { [ annotations |-> [i \in 1..Len(s) |-> Ann(i, s[i][1], s[i][2], s[i][3], Some(BoxA))],
        images |-> <<Image1, Image2>>,
        categories |-> Categories ] : s \in SeqsUpTo(AnnShapes, MaxAnns) }

NoFolder == [f \in FileNames |-> NoFile]

InitQuery == \E ds \in QueryDatasets : InitWith(ds, NoFolder, <<1, 2>>)

\* the caller takes what the last call returned; the next call follows
Consume ==
    /\ ret.op # "none"
    /\ ret' = NoCall
    /\ UNCHANGED <<dataset, index, files, pc, loc, hist, setorder>>

\* get_ann_ids(img_ids, cat_ids, area_rng)
CallGetAnnIds(img_ids, cat_ids, area_rng) ==
    LET r == get_ann_ids(dataset, index, img_ids, cat_ids, area_rng)
    IN  /\ ret' = [ op |-> "get_ann_ids", img_ids |-> img_ids, cat_ids |-> cat_ids,
                    area_rng |-> area_rng, err |-> r.err, val |-> r.val ]
        /\ index' = [index EXCEPT !.img_ann_map = r.img_ann_map]
        /\ UNCHANGED <<dataset, files, pc, loc, hist, setorder>>

\* load_anns(ids), load_imgs(ids), load_cats(ids)
CallLoad(which, ids) ==
    LET r == _load_helper(index[which], ids)
    IN  /\ ret' = [op |-> "load", which |-> which, ids |-> ids, err |-> r.err, val |-> r.val]
        /\ UNCHANGED <<dataset, index, files, pc, loc, hist, setorder>>

\* get_image_ids(category_id)
CallGetImageIds(category_id) ==
    /\ ret' = [ op |-> "get_image_ids", category_id |-> category_id,
                val |-> get_image_ids(dataset, category_id) ]
    /\ UNCHANGED <<dataset, index, files, pc, loc, hist, setorder>>

\* get_annotations(category_id, image_ids)
CallGetAnnotations(category_id, image_ids) ==
    /\ ret' = [ op |-> "get_annotations", category_id |-> category_id,
                image_ids |-> image_ids,
                val |-> get_annotations(dataset, category_id, image_ids) ]
    /\ UNCHANGED <<dataset, index, files, pc, loc, hist, setorder>>

AreaRanges == {<<lo, hi>> : lo \in 0..MaxArea, hi \in 0..MaxArea}

\* a lookup is called when the caller has taken the result of the last one
\* and no export runs
Ready == ret.op = "none" /\ \A p \in Procs : pc[p] = "idle"

GetAnnIdsCalled ==
    /\ Ready
    /\ \E img_ids \in {None, Some(<<2, 1>>), Some(<<3>>)},
          cat_ids \in {None, Some(<<1>>), Some(<<2, 1>>)},
          area_rng \in {None} \cup {Some(r) : r \in AreaRanges} :
            CallGetAnnIds(img_ids, cat_ids, area_rng)

LoadCalled ==
    /\ Ready
    /\ \E which \in {"anns", "imgs", "cats"},
          ids \in {None} \cup {Some(s) : s \in SeqsUpTo({1, 2, 3}, 2)} :
            CallLoad(which, ids)

GetImageIdsCalled ==
    /\ Ready
    /\ \E category_id \in {1, 2, 3} : CallGetImageIds(category_id)

GetAnnotationsCalled ==
    /\ Ready
    /\ \E category_id \in {1, 2, 3}, image_ids \in SUBSET {1, 2, 3} :
            CallGetAnnotations(category_id, image_ids)

NextQuery == GetAnnIdsCalled \/ LoadCalled \/ GetImageIdsCalled \/ Consume

SpecQuery == InitQuery /\ [][NextQuery]_vars

(***************************************************************************)
(* get_annotations called directly and by export_labels (SpecGroup).       *)
(***************************************************************************)
GroupDatasets ==
    { [ annotations |-> << Ann(1, 1, 1, 1, b1), Ann(2, i2, c2, 1, Some(BoxB)), Ann(3, i3, 1, 1, Some(BoxA)) >>,
        images |-> <<Image1, img2>>,
        categories |-> Categories ] :
        b1 \in {Some(BoxA), None}, i2 \in {1, 2}, c2 \in {1, 2}, i3 \in {1, 2},
        img2 \in {Image2, Img(2, Null(EmptyUrl), Some(2), Some(4)), Img(2, Image2.coco_url, Some(0), Some(4))} }

InitGroup ==
    \E ds \in GroupDatasets : \E order \in Orderings(ImageIdsOf(ds)) : InitWith(ds, NoFolder, order)

NextGroup == Export(1) \/ GetAnnotationsCalled \/ Consume

SpecGroup == InitGroup /\ [][NextGroup]_vars

(***************************************************************************)
(* The box arithmetic of export_labels on its own (SpecBox).               *)
(***************************************************************************)
BoxDataset == [annotations |-> <<>>, images |-> <<>>, categories |-> <<>>]

InitBox == InitWith(BoxDataset, NoFolder, <<>>)

\* lines 436-451 for one box and one image size
CallNormalize(bbox, img_width, img_height) ==
    /\ ret' = [ op |-> "normalize", bbox |-> bbox, img_width |-> img_width,
                img_height |-> img_height,
                val |-> Normalize(bbox, img_width, img_height),
                bbox_line |-> BboxLine(0, bbox, img_width, img_height) ]
    /\ UNCHANGED <<dataset, index, files, pc, loc, hist, setorder>>

NormalizeCalled ==
    /\ Ready
    /\ \E x, y \in -1..MaxCoord, w, h \in 0..MaxCoord, img_width, img_height \in 1..MaxDim :
            CallNormalize(<<x, y, w, h>>, img_width, img_height)

NextBox == NormalizeCalled \/ Consume

SpecBox == InitBox /\ [][NextBox]_vars

(***************************************************************************)
(* Properties of export_labels, checked under Spec.                        *)
(***************************************************************************)
IsPrefix(s, t) == Len(s) <= Len(t) /\ \A i \in 1..Len(s) : s[i] = t[i]
Count(x, s) == Cardinality({i \in 1..Len(s) : s[i] = x})
NoLineTwice(file) == \A l \in Range(FileLines(file)) : Count(l, FileLines(file)) = 1

\* the record has a usable URL, width and height
Sound(img) ==
    /\ img.coco_url.st = "val" /\ img.coco_url.v # EmptyUrl
    /\ img.width.st = "val" /\ img.width.v # 0
    /\ img.height.st = "val" /\ img.height.v # 0

\* the bbox field holds exactly four numbers
FourNumbers(bbox) == bbox.st = "val" /\ Len(bbox.v) = 4

\* the annotations of one image and category that have a well-formed box
BoxedAnns(image_id, category_id) ==
    {i \in 1..Len(dataset.annotations) :
        /\ dataset.annotations[i].image_id = image_id
        /\ dataset.annotations[i].category_id = category_id
        /\ FourNumbers(dataset.annotations[i].bbox)}

\* the label line the export of class index k owes annotation i of image img
OwedLine(k, i, img) == BboxLine(k, dataset.annotations[i].bbox.v, img.width.v, img.height.v)

\* C1: when export_labels has run a second time with the arguments of the run
\* before it, every label file holds what it held after that run, and no
\* label file holds a line twice, whatever the folder held at the start.
C1_Idempotent ==
    \A p \in Procs :
        (pc[p] \in {"done", "error"} /\ loc[p].rerun) =>
            /\ files = hist.last.files
            /\ \A f \in FileNames : NoLineTwice(files[f])

\* C2: an image whose label file did not exist at the start: once category A
\* under one class index and category B under another have been exported for
\* it, its file holds every line of A and every line of B exactly once, and
\* keeps them through all later exports.
C2_Additive ==
    \A img \in Range(dataset.images), e \in hist.exported :
        (Sound(img) /\ e[3] = img.id /\ ~hist.files0[LabelFileName(img.coco_url.v)].ex) =>
            \A i \in BoxedAnns(img.id, e[1]) :
                Count(OwedLine(e[2], i, img), FileLines(files[LabelFileName(img.coco_url.v)])) = 1

\* C2 witness: image 1 has a box of category 1 and one of category 2, both
\* were exported under different class indices into a file that did not exist
C2_Witness ==
    /\ ~hist.files0["p1"].ex
    /\ BoxedAnns(1, 1) # {} /\ BoxedAnns(1, 2) # {}
    /\ \E k1, k2 \in {0, 1} :
          /\ k1 # k2
          /\ <<1, k1, 1>> \in hist.exported /\ <<2, k2, 1>> \in hist.exported
          /\ \A i \in BoxedAnns(1, 1) : Count(OwedLine(k1, i, Image1), FileLines(files["p1"])) = 1
          /\ \A i \in BoxedAnns(1, 2) : Count(OwedLine(k2, i, Image1), FileLines(files["p1"])) = 1

\* C3: while and after export_labels runs, every line a label file held
\* before the call is still in the file, at its place and unchanged.
C3_NoDataLoss ==
    \A p \in Procs :
        pc[p] # "idle" =>
            \A f \in FileNames :
                /\ loc[p].pre[f].ex => files[f].ex
                /\ IsPrefix(FileLines(loc[p].pre[f]), FileLines(files[f]))

\* C6: an image record without a usable URL, width or height is passed over:
\* the call does not fail on it and goes on with the images that remain.
C6_SkipsIncomplete ==
    \A p \in Procs :
        (loc[p].img.id # 0 /\ ~Sound(loc[p].img)) => pc[p] \in {"img", "done"}

\* C7: an annotation whose bbox is missing or not of length 4 raises nothing
\* and writes nothing, the call goes on with the annotations and images that
\* remain, and every well-formed box of an exported image has its line written.
C7_SkipStep ==
    \A p \in Procs :
        (/\ pc[p] = "ann"
         /\ loc[p].annotations_for_image # <<>>
         /\ ~FourNumbers(Head(loc[p].annotations_for_image).bbox)) =>
            /\ pc'[p] = "ann"
            /\ files' = files
            /\ loc'[p] = [loc[p] EXCEPT !.annotations_for_image = Tail(@)]

C7_LinesWritten ==
    \A img \in Range(dataset.images), e \in hist.exported :
        (Sound(img) /\ e[3] = img.id) =>
            \A i \in BoxedAnns(img.id, e[1]) :
                OwedLine(e[2], i, img)[1] \in Range(files[LabelFileName(img.coco_url.v)].data)

Annotations == Range(dataset.annotations)

\* C4: get_ann_ids with a category set returns the ids of exactly the source
\* annotations whose category is in the set and whose area is strictly above
\* area_rng[0] and strictly below area_rng[1] (above 0 when area_rng is
\* omitted), each once and in file order when no image ids are given.
C4_AreaFilter ==
    (ret.op = "get_ann_ids" /\ ret.cat_ids.st = "val") =>
        LET InSource(a) == ret.img_ids.st # "val" \/ a.image_id \in Range(ret.img_ids.v)
            InRange(a) == IF ret.area_rng.st = "val"
                          THEN ret.area_rng.v[1] < a.area /\ a.area < ret.area_rng.v[2]
                          ELSE 0 < a.area
        IN  /\ ret.err = "none"
            /\ Range(ret.val) =
                 {a.id : a \in {b \in Annotations :
                                  InSource(b) /\ b.category_id \in Range(ret.cat_ids.v) /\ InRange(b)}}
            /\ ret.img_ids.st # "val" =>
                 \A i, j \in 1..Len(ret.val) : i < j => ret.val[i] < ret.val[j]

\* C4 witness: a call with a category set and a range that keeps one
\* annotation and drops another of the same categories whose area is a bound
C4_Witness ==
    /\ ret.op = "get_ann_ids" /\ ret.cat_ids.st = "val" /\ ret.area_rng.st = "val"
    /\ ret.val # <<>>
    /\ \E a \in Annotations :
          /\ a.category_id \in Range(ret.cat_ids.v)
          /\ a.area \in {ret.area_rng.v[1], ret.area_rng.v[2]}
          /\ a.id \notin Range(ret.val)

\* C5: _load_helper returns every value of the collection when ids is
\* omitted; the record of each given id, in the given order, when every id is
\* a key; and raises KeyError, returning nothing, when some id is no key.
C5_LoadByIds ==
    ret.op = "load" =>
        LET d == index[ret.which]
        IN  IF ret.ids.st # "val"
            THEN /\ ret.err = "none"
                 /\ Len(ret.val) = Len(d)
                 /\ \A i \in 1..Len(d) : ret.val[i] = d[i][2]
            ELSE IF Range(ret.ids.v) \subseteq DictKeys(d)
            THEN /\ ret.err = "none"
                 /\ Len(ret.val) = Len(ret.ids.v)
                 /\ \A i \in 1..Len(ret.ids.v) :
                        /\ ret.val[i].id = ret.ids.v[i]
                        /\ \E j \in 1..Len(d) : d[j] = <<ret.ids.v[i], ret.val[i]>>
            ELSE ret.err = "KeyError" /\ ret.val = <<>>

\* C5 witness: ids with a key of the collection and an id that is no key
C5_Witness ==
    /\ ret.op = "load" /\ ret.ids.st = "val"
    /\ Range(ret.ids.v) \cap DictKeys(index[ret.which]) # {}
    /\ Range(ret.ids.v) \ DictKeys(index[ret.which]) # {}
    /\ ret.err = "KeyError"

\* C9: get_image_ids returns the set of the image ids of the annotations of
\* the category, the empty set when there is none.
C9_ImageIds ==
    ret.op = "get_image_ids" =>
        ret.val = {a.image_id : a \in {b \in Annotations : b.category_id = ret.category_id}}

\* C9 witness: a category that some annotations have and others do not
C9_Witness ==
    /\ ret.op = "get_image_ids"
    /\ ret.val # {}
    /\ \E a \in Annotations : a.category_id # ret.category_id /\ a.image_id \notin ret.val

(***************************************************************************)
(* Properties of the box arithmetic, checked under SpecBox.                *)
(***************************************************************************)
\* the fraction lies in [0, 1]
InUnit(q) == 0 <= q.n /\ q.n <= q.d
AllInUnit(v) == InUnit(v.x_center) /\ InUnit(v.y_center) /\ InUnit(v.w_norm) /\ InUnit(v.h_norm)

\* C8 as claimed: 0 < w <= image_width and 0 < h <= image_height put all
\* four values in [0, 1].
C8_UnitRange ==
    (/\ ret.op = "normalize"
     /\ 0 < ret.bbox[3] /\ ret.bbox[3] <= ret.img_width
     /\ 0 < ret.bbox[4] /\ ret.bbox[4] <= ret.img_height) =>
        AllInUnit(ret.val)

\* C8 amended: with 0 < w <= image_width and 0 < h <= image_height, w_norm
\* and h_norm lie in (0, 1]; x_center lies in [0, 1] exactly when
\* 0 <= x + w/2 <= image_width and y_center exactly when
\* 0 <= y + h/2 <= image_height, so all four do when the box is inside the
\* image; the printed millionths then lie in 0..1000000.
C8_UnitRangeInside ==
    (/\ ret.op = "normalize"
     /\ 0 < ret.bbox[3] /\ ret.bbox[3] <= ret.img_width
     /\ 0 < ret.bbox[4] /\ ret.bbox[4] <= ret.img_height) =>
        LET x == ret.bbox[1]
            y == ret.bbox[2]
            w == ret.bbox[3]
            h == ret.bbox[4]
        IN  /\ InUnit(ret.val.w_norm) /\ ret.val.w_norm.n > 0
            /\ InUnit(ret.val.h_norm) /\ ret.val.h_norm.n > 0
            /\ InUnit(ret.val.x_center) <=> (0 <= 2 * x + w /\ 2 * x + w <= 2 * ret.img_width)
            /\ InUnit(ret.val.y_center) <=> (0 <= 2 * y + h /\ 2 * y + h <= 2 * ret.img_height)
            /\ (0 <= x /\ x + w <= ret.img_width /\ 0 <= y /\ y + h <= ret.img_height) =>
                   /\ AllInUnit(ret.val)
                   /\ \A i \in 2..5 : ret.bbox_line[1][i] \in 0..1000000

\* C8 witness: a box inside the image that is as wide as the image
C8_Witness ==
    /\ ret.op = "normalize"
    /\ ret.bbox[1] = 0 /\ ret.bbox[3] = ret.img_width /\ ret.img_width > 1
    /\ ret.bbox[2] > 0 /\ ret.bbox[4] > 0 /\ ret.bbox[2] + ret.bbox[4] <= ret.img_height
    /\ AllInUnit(ret.val)

(***************************************************************************)
(* Properties of get_annotations, checked under SpecGroup.                 *)
(***************************************************************************)
\* m maps exactly the image ids of image_ids that have an annotation of the
\* category, each to its annotations of the category in file order
GroupedExactly(m, category_id, image_ids) ==
    LET Of(k) == SelectSeq(dataset.annotations,
                           LAMBDA a : a.image_id = k /\ a.category_id = category_id)
    IN  /\ \A i, j \in 1..Len(m) : m[i][1] = m[j][1] => i = j
        /\ DictKeys(m) = {k \in image_ids : Of(k) # <<>>}
        /\ \A i \in 1..Len(m) : m[i][2] = Of(m[i][1]) /\ m[i][2] # <<>>

\* C10: the mapping get_annotations returns, to a direct caller and to
\* export_labels at every step of its loop, has exactly the image ids with an
\* annotation of the category as keys, each with all and only its annotations
\* of the category in file order, and no empty group.
C10_Groups ==
    /\ ret.op = "get_annotations" =>
           GroupedExactly(ret.val, ret.category_id, ret.image_ids)
    /\ \A p \in Procs :
           GroupedExactly(loc[p].image_id_to_annotations, loc[p].category_id,
                          {a.image_id : a \in Annotations})

\* C10 witness: after an export that looked up the group of an image, a
\* direct call whose image_ids hold an image without annotation of the
\* category and an image with two of them
C10_Witness ==
    /\ hist.exported # {}
    /\ ret.op = "get_annotations"
    /\ \E k \in ret.image_ids : ~DictHas(ret.val, k)
    /\ \E i \in 1..Len(ret.val) : Len(ret.val[i][2]) = 2

(***************************************************************************)
(* The category filters of extract.py and automate_lvis.py (SpecFilter).   *)
(* Each reads a JSON list of category records and returns a list of them.  *)
(* Here the list read is dataset.categories; a record has the fields id,   *)
(* image_count, name and synset, the last three of which may be absent.    *)
(***************************************************************************)
\* extract.py line 40: categories_sorted[:25]
TopN == 25

\* the category names of the model, in alphabetical order
Names == <<"ant", "bee">>
NameRank(name) == CHOOSE i \in 1..Len(Names) : Names[i] = name

Cat(id, image_count, name, synset) ==
    [id |-> id, image_count |-> image_count, name |-> name, synset |-> synset]

\* sorted(records, key=...): a stable sort.  keyed is the list of the pairs
\* <<key, record>>, the keys integers; the result is in ascending key order
RECURSIVE InsertSorted(_, _)
InsertSorted(x, sorted) ==
    IF sorted = <<>> THEN <<x>>
    ELSE IF x[1] < Head(sorted)[1] THEN <<x>> \o sorted
    ELSE <<Head(sorted)>> \o InsertSorted(x, Tail(sorted))

RECURSIVE SortKeyed(_, _)
SortKeyed(keyed, acc) ==
    IF keyed = <<>> THEN acc
    ELSE SortKeyed(Tail(keyed), InsertSorted(Head(keyed), acc))

\* sorted(records, key=..., reverse=...), keys[i] being the key of records[i]:
\* reverse=True keeps records of equal key in their order, as a stable sort
\* on the negated key does
SortedBy(records, keys, reverse) ==
    LET keyed == [i \in 1..Len(records) |->
                     <<IF reverse THEN 0 - keys[i] ELSE keys[i], records[i]>>]
        sorted == SortKeyed(keyed, <<>>)
    IN  [i \in 1..Len(sorted) |-> sorted[i][2]]

\* cat['field'] for every record: KeyError when a record has no such key
Lacks(categories, field) == \E i \in 1..Len(categories) : categories[i][field].st = "absent"

\* extract.py lines 33-40
get_top_25_categories_by_image_count(categories) ==
    IF Lacks(categories, "image_count") THEN [err |-> "KeyError", val |-> <<>>]
    ELSE LET categories_sorted ==
                 SortedBy(categories,
                          [i \in 1..Len(categories) |-> categories[i].image_count.v], TRUE)
         IN  [err |-> "none",
              val |-> SubSeq(categories_sorted, 1,
                             IF Len(categories_sorted) < TopN THEN Len(categories_sorted) ELSE TopN)]

\* extract.py line 61: cat.get('synset') in name_array; the None that a
\* record without the key gives is in no array of names
SynsetIn(cat, name_array) == cat.synset.st = "val" /\ cat.synset.v \in Range(name_array)

\* extract.py lines 57-67
get_categories_by_name(categories, name_array) ==
    [err |-> "none",
     val |-> SelectSeq(categories, LAMBDA cat : SynsetIn(cat, name_array))]

\* automate_lvis.py lines 20-27
get_categories_alphabetized(categories) ==
    IF Lacks(categories, "name") THEN [err |-> "KeyError", val |-> <<>>]
    ELSE [err |-> "none",
          val |-> SortedBy(categories,
                           [i \in 1..Len(categories) |-> NameRank(categories[i].name.v)], FALSE)]

\* the shapes of a category record
CatShapes ==
    {<<image_count, name, synset>> :
        image_count \in {Absent(0), Some(1), Some(2)},
        name \in {Absent(""), Some("ant"), Some("bee")},
        synset \in {Absent(""), Some("ant"), Some("bee")}}

FilterDatasets ==
    { [ annotations |-> <<>>, images |-> <<>>,
        categories |-> [i \in 1..Len(s) |-> Cat(i, s[i][1], s[i][2], s[i][3])] ] :
        s \in SeqsUpTo(CatShapes, 2) }

InitFilter == \E ds \in FilterDatasets : InitWith(ds, NoFolder, <<>>)

CallTop25 ==
    LET r == get_top_25_categories_by_image_count(dataset.categories)
    IN  /\ ret' = [op |-> "get_top_25_categories_by_image_count", field |-> "image_count",
                   name_array |-> <<>>, err |-> r.err, val |-> r.val]
        /\ UNCHANGED <<dataset, index, files, pc, loc, hist, setorder>>

CallByName(name_array) ==
    LET r == get_categories_by_name(dataset.categories, name_array)
    IN  /\ ret' = [op |-> "get_categories_by_name", field |-> "synset",
                   name_array |-> name_array, err |-> r.err, val |-> r.val]
        /\ UNCHANGED <<dataset, index, files, pc, loc, hist, setorder>>

CallAlphabetized ==
    LET r == get_categories_alphabetized(dataset.categories)
    IN  /\ ret' = [op |-> "get_categories_alphabetized", field |-> "name",
                   name_array |-> <<>>, err |-> r.err, val |-> r.val]
        /\ UNCHANGED <<dataset, index, files, pc, loc, hist, setorder>>

Top25Called == Ready /\ CallTop25

ByNameCalled ==
    /\ Ready
    /\ \E name_array \in {<<>>, <<"ant">>, <<"bee", "ant">>} : CallByName(name_array)

AlphabetizedCalled == Ready /\ CallAlphabetized

NextFilter == Top25Called \/ ByNameCalled \/ AlphabetizedCalled \/ Consume

SpecFilter == InitFilter /\ [][NextFilter]_vars

FilterOps ==
    {"get_top_25_categories_by_image_count", "get_categories_by_name",
     "get_categories_alphabetized"}

\* C11: when a category record lacks the field a filter mode compares, the
\* call of that mode (top-N by image_count, by name list, alphabetical by
\* name) fails with a missing-field error and returns no record.
C11_MissingFieldFails ==
    (ret.op \in FilterOps /\ Lacks(dataset.categories, ret.field)) =>
        (ret.err = "KeyError" /\ ret.val = <<>>)

(***************************************************************************)
(* Every lookup method and export_labels on one loaded dataset (SpecIndex).*)
(***************************************************************************)
NextIndex ==
    \/ Export(1)
    \/ GetAnnIdsCalled
    \/ LoadCalled
    \/ GetImageIdsCalled
    \/ GetAnnotationsCalled
    \/ Consume

SpecIndex == InitGroup /\ [][NextIndex]_vars

\* C12: after any sequence of lookup and export calls the maps anns, imgs,
\* cats, img_ann_map and cat_img_map hold exactly the keys and values that
\* _create_index built from the dataset.
C12_IndexReadOnly == index = _create_index(dataset)

(***************************************************************************)
(* Constructing LVIS from an annotation file (SpecLoad).  A document is    *)
(* what json.load returns: kind says whether it is a JSON object, keys     *)
(* which of "annotations", "images", "categories" it has.                  *)
(***************************************************************************)
Document(kind, keys, annotations, images, categories) ==
    [kind |-> kind, keys |-> keys,
     annotations |-> annotations, images |-> images, categories |-> categories]

\* the dict that self.dataset is once the assertion of line 33 has passed
DatasetOf(document) ==
    [annotations |-> document.annotations, images |-> document.images,
     categories |-> document.categories]

\* lines 31-36: what the constructor raises, and the object it leaves
__init__(document) ==
    IF document.kind # "dict"
    THEN [err |-> "AssertionError", dataset |-> BoxDataset, index |-> _create_index(BoxDataset)]
    ELSE IF \E k \in {"annotations", "images", "categories"} : k \notin document.keys
    THEN \* lines 52-59: self.dataset["annotations"], ["images"], ["categories"]
         [err |-> "KeyError", dataset |-> BoxDataset, index |-> _create_index(BoxDataset)]
    ELSE [err |-> "none", dataset |-> DatasetOf(document),
          index |-> _create_index(DatasetOf(document))]

\* annotation files: up to two annotations on images 1, 2 of categories 1, 2,
\* with zero to two image records and zero to two category records
Documents ==
    { Document(kind, keys,
               [i \in 1..Len(s) |-> Ann(i, s[i][1], s[i][2], 1, Some(BoxA))],
               images, categories) :
        kind \in {"dict", "list"},
        keys \in {{"annotations", "images", "categories"}, {"annotations", "images"},
                  {"images", "categories"}},
        s \in SeqsUpTo({1, 2} \X {1, 2}, 2),
        images \in {<<>>, <<Image1>>, <<Image1, Image2>>},
        categories \in {<<>>, <<[id |-> 1]>>, Categories} }

\* no LVIS object yet
InitLoad == InitWith(BoxDataset, NoFolder, <<>>)

Construct(document) ==
    LET r == __init__(document)
    IN  /\ dataset' = r.dataset
        /\ index' = r.index
        /\ ret' = [op |-> "__init__", document |-> document, err |-> r.err]
        /\ UNCHANGED <<files, pc, loc, hist, setorder>>

Constructed == Ready /\ \E document \in Documents : Construct(document)

\* the object, or the exception, is dropped
Released ==
    /\ ret.op = "__init__"
    /\ dataset' = BoxDataset
    /\ index' = _create_index(BoxDataset)
    /\ ret' = NoCall
    /\ UNCHANGED <<files, pc, loc, hist, setorder>>

NextLoad == Constructed \/ Released

SpecLoad == InitLoad /\ [][NextLoad]_vars

\* C13: when constructing LVIS from an annotation file has succeeded, every
\* annotation of the index has an image_id that is a key of imgs and a
\* category_id that is a key of cats.
C13_ReferentialIntegrity ==
    (ret.op = "__init__" /\ ret.err = "none") =>
        \A i \in 1..Len(index.anns) :
            /\ DictHas(index.imgs, index.anns[i][2].image_id)
            /\ DictHas(index.cats, index.anns[i][2].category_id)

(***************************************************************************)
(* Two export_labels calls at once on one labels folder (SpecConcurrent).  *)
(* The steps of the two calls interleave; each step is one access to disk. *)
(***************************************************************************)
\* image 1 with two annotations, the second of either category, and one
\* annotation on image 2; the second box and image 2 are sound, or the box
\* is missing and image 2 has width 0, or the URL of image 2 is null
ConcurrentDatasets ==
    { [ annotations |-> << Ann(1, 1, 1, 1, Some(BoxA)), Ann(2, 1, c2, 1, v[1]),
                           Ann(3, 2, 2, 1, Some(BoxA)) >>,
        images |-> <<Image1, v[2]>>,
        categories |-> Categories ] :
        c2 \in {1, 2},
        v \in { <<Some(BoxA), Image2>>, <<Some(BoxB), Image2>>,
                <<None, Img(2, Image2.coco_url, Some(0), Some(4))>>,
                <<Some(BoxA), Img(2, Null(EmptyUrl), Some(2), Some(4))>> } }

InitConcurrent ==
    \E ds \in ConcurrentDatasets,
       c \in {NoFile, [ex |-> TRUE, data |-> LineA \o <<NL>>]} :
        \E order \in Orderings(ImageIdsOf(ds)) :
            InitWith(ds, [f \in FileNames |-> IF f = "p1" THEN c ELSE NoFile], order)

NextConcurrent == Export(1) \/ Export(2)

SpecConcurrent == InitConcurrent /\ [][NextConcurrent]_vars

\* C14: as long as no call has read a label file between the read and the
\* append of another call on that file (one writer per file at a time), no
\* label file holds a line twice; a duplicated line needs such an interleaving.
C14_OneWriterNoDuplicate ==
    ~hist.overlap => \A f \in FileNames : NoLineTwice(files[f])

\* C14 witness: two calls that export different categories run at once and
\* their reads and appends on p1.txt have interleaved so that it holds a line twice
C14_Witness ==
    /\ pc[1] # "idle" /\ pc[2] # "idle"
    /\ loc[1].category_id # loc[2].category_id
    /\ hist.overlap
    /\ ~NoLineTwice(files["p1"])

(***************************************************************************)
(* Creation of label files, checked under Spec.                            *)
(***************************************************************************)
\* a step creates or changes a label file only by appending one line to it
C15_GrowsByLine ==
    \A f \in FileNames :
        files'[f] # files[f] =>
            /\ files'[f].ex
            /\ Len(FileLines(files'[f])) >= 1
            /\ \E p \in Procs :
                  /\ pc[p] = "append"
                  /\ f = LabelFileName(loc[p].img.coco_url.v)
                  /\ files'[f].data = files[f].data \o loc[p].bbox_line \o <<NL>>

\* a label file that was not there at the start holds at least one line
C15_NoEmptyFile ==
    \A f \in FileNames :
        (files[f].ex /\ ~hist.files0[f].ex) => Len(FileLines(files[f])) >= 1

\* an exported image whose annotations of the category have no well-formed
\* box has no label file, unless the file was there or an export with
\* well-formed boxes (of another category, or of an image of the same file
\* name) has written it
C15_NoFileForMalformed ==
    \A img \in Range(dataset.images), e \in hist.exported :
        (/\ Sound(img) /\ e[3] = img.id
         /\ ~hist.files0[LabelFileName(img.coco_url.v)].ex
         /\ \A e2 \in hist.exported, img2 \in Range(dataset.images) :
               (Sound(img2) /\ e2[3] = img2.id
                /\ LabelFileName(img2.coco_url.v) = LabelFileName(img.coco_url.v)) =>
                    BoxedAnns(img2.id, e2[1]) = {}
         /\ \A p \in Procs :
               (pc[p] \in {"ann", "append"}
                /\ LabelFileName(loc[p].img.coco_url.v) = LabelFileName(img.coco_url.v)) =>
                    BoxedAnns(loc[p].img.id, loc[p].category_id) = {}) =>
            ~files[LabelFileName(img.coco_url.v)].ex

\* C15: export_labels never creates an empty label file: a label file is
\* created or grown only when a line is appended to it, a file exists only
\* if it was there before or holds a line, and an image whose annotations of
\* the category all have malformed boxes gets no label file.
C15_NeverEmptyFile ==
    [][C15_GrowsByLine]_vars /\ []C15_NoEmptyFile /\ []C15_NoFileForMalformed

\* C15 witness: image 1 was exported for category 1, where its only
\* annotation has a malformed box, and p1.txt, absent at the start, is absent
C15_Witness ==
    /\ \E k \in {0, 1} : <<1, k, 1>> \in hist.exported
    /\ dataset.annotations[2].category_id = 2
    /\ ~FourNumbers(dataset.annotations[1].bbox)
    /\ ~hist.files0["p1"].ex
    /\ ~files["p1"].ex

(***************************************************************************)
(* get_ann_ids without a category set, checked under SpecQuery.            *)
(***************************************************************************)
\* the ids of the annotations on one image, in file order
IdsOnImage(image_id) ==
    IdsOf(SelectSeq(dataset.annotations, LAMBDA a : a.image_id = image_id))

\* the ids of the source: the annotations of the given images, image by
\* image, or all annotations of the file when no image ids are given
RECURSIVE SourceIds(_)
SourceIds(img_ids) ==
    IF img_ids = <<>> THEN <<>>
    ELSE IdsOnImage(Head(img_ids)) \o SourceIds(Tail(img_ids))

====
